---- MODULE Spec2Model ----
(***************************************************************************)
(* Session store of the communication-plugin library (src/session.rs):     *)
(* the session table, the four statements that touch it (persist,          *)
(* register_auth_result, find_by_room_id, clean_db) and the requests that  *)
(* issue them concurrently.  Every statement is one SQL statement, which   *)
(* the database executes atomically; a request is in flight between the    *)
(* moment it is issued and the moment its statement executes.              *)
(***************************************************************************)
EXTENDS Integers, FiniteSets, Sequences, TLC

(***************************************************************************)
(* Bounds of the model.                                                    *)
(***************************************************************************)
\* The clock runs from 0 to MaxTime (unit: one hour).
MaxTime == 2
\* INTERVAL '1 hour' of clean_db, in clock units.
Hour == 1

\* The requests that run concurrently with each other and with the sweep.
Procs == {"p1", "p2"}

(***************************************************************************)
(* Values.                                                                 *)
(***************************************************************************)
\* Option::None / SQL NULL of the auth_result column.
NULL == "NULL"
\* Authentication results (opaque signed and encrypted blobs).
Payloads == {"v1", "v2"}
AttrIds == {"a1", "a2"}
RoomIds == {"r1", "r2"}

\* enum SessionDomain { User, Guest }
SessionDomain == {"User", "Guest"}

\* Text that is no domain name (what from_str rejects).
ParseError == "ParseError"

\* Mutation: the variant's name as written, without serialize_all.
DomainToString_VariantName(d) == d

\* ToString of SessionDomain under strum(serialize_all = "snake_case").
DomainToString(d) ==
    CASE d = "User" -> "user"
      [] d = "Guest" -> "guest"

\* FromStr (EnumString) of SessionDomain under the same serialize_all.
DomainFromStr(t) ==
    CASE t = "user" -> "User"
      [] t = "guest" -> "Guest"
      [] OTHER -> ParseError

GuestToken(id, domain, name, room_id) ==
    [id |-> id, domain |-> domain, redirect_url |-> "idcontact.nl",
     name |-> name, room_id |-> room_id, instance |-> "icontact.nl"]

\* Session::new: a fresh session carries no authentication result.
SessionNew(guest_token, attr_id, purpose) ==
    [guest_token |-> guest_token, auth_result |-> NULL,
     attr_id |-> attr_id, purpose |-> purpose]

\* The sessions that requests try to persist: two fresh ones for room r1, and
\* one for room r2 that reuses attr_id a1.  Session is a public struct with
\* public fields, so a session can also be built (or deserialized) with an
\* authentication result already in it, as the third one is.
Sessions ==
    { SessionNew(GuestToken("s1", "Guest", "n1", "r1"), "a1", "p1"),
      SessionNew(GuestToken("s2", "User", "n2", "r1"), "a2", "p2"),
      [SessionNew(GuestToken("s3", "User", "n3", "r2"), "a1", "p2")
          EXCEPT !.auth_result = "v1"] }

(***************************************************************************)
(* State.                                                                  *)
(***************************************************************************)
VARIABLES
    store,  \* the rows of table session
    now,    \* the database clock, now()
    pc,     \* per request: "idle", "called" (statement not yet executed), "done"
    call,   \* per request: the operation and its arguments
    ret,    \* per request: the Result the operation returned
    sweep,  \* the periodic sweep: "idle", or "called" (clean_db's DELETE not yet executed)
    live,   \* history: the request and every request racing with it are still on record
    host,   \* the host's get_credentials_for_host request (RoomSpec)
    hist,   \* history: when each row was last touched, when the sweep last ran
    cred,   \* a list of guests' results on its way through collect_credentials
            \* and render_credentials (CredSpec)
    auth,   \* the login flow: the browser's cookies and the last response (AuthSpec)
    sig,    \* a token being signed (SignSpec)
    resp,   \* an error or a secret being written out (RespondSpec)
    tok     \* a platform token being verified (TokenSpec)

\* The state of the parts that share nothing with the session store.
rest == <<auth, sig, resp, tok>>

vars == <<store, now, pc, call, ret, sweep, live, host, hist, cred, auth, sig, resp, tok>>

\* What the specification of the racing requests (Spec) leaves alone.
others == <<host, hist, cred, rest>>

NoSession == [guest_token |-> GuestToken("", "Guest", "", ""), auth_result |-> NULL,
              attr_id |-> "", purpose |-> ""]
NoCall == [op |-> "none", session |-> NoSession, attr_id |-> "", auth_result |-> NULL,
           room_id |-> ""]
NoRet == [kind |-> "none", sessions |-> {}]

Ok == [kind |-> "Ok", sessions |-> {}]
OkSessions(ss) == [kind |-> "Ok", sessions |-> ss]
Err(e) == [kind |-> e, sessions |-> {}]

\* The columns of a row as persist's INSERT fills them from a session.
InsertRow(this, t) ==
    [session_id |-> this.guest_token.id,
     room_id |-> this.guest_token.room_id,
     domain |-> DomainToString(this.guest_token.domain),
     redirect_url |-> this.guest_token.redirect_url,
     purpose |-> this.purpose,
     name |-> this.guest_token.name,
     instance |-> this.guest_token.instance,
     attr_id |-> this.attr_id,
     auth_result |-> this.auth_result,
     last_activity |-> t]

\* The table's uniqueness constraint on attr_id: the INSERT of row x is refused.
UniqueViolation(rows, x) == \E y \in rows : y.attr_id = x.attr_id

\* No host request, no row touched, no sweep run.
NoHost == [pc |-> "idle", jwt |-> [signed_with |-> "", payload |-> ""], room_id |-> "",
           sessions |-> <<>>, kind |-> "none", credentials |-> <<>>,
           before |-> {}, read_at |-> -1]
NoTouch == [at |-> -1, prev |-> -1]
NoHist == [touch |-> [a \in AttrIds |-> NoTouch], swept |-> -1, again |-> FALSE, reaped |-> {},
           results |-> [a \in AttrIds |-> {}]]

\* No list of guests' results.
NoRendered == [render_type |-> "none", engine |-> "", template |-> "", shape |-> "",
               credentials |-> <<>>]
NoCred == [pc |-> "none", guest_auth_results |-> <<>>, kind |-> "none",
           credentials |-> <<>>, iters |-> <<>>, rendered |-> NoRendered]

\* No login, no token being signed, nothing written out.
NoCookie == [value |-> NULL, http_only |-> FALSE, secure |-> FALSE, same_site |-> ""]
NoAuth == [provider |-> "None",
           jar |-> [token |-> NoCookie, redirect |-> NoCookie],
           request |-> [route |-> "", return_url |-> NULL, bearer |-> NULL],
           reply |-> [sent |-> FALSE, json |-> FALSE, fields |-> <<>>],
           checked |-> [kind |-> "none", value |-> FALSE, text |-> "", asked |-> FALSE],
           response |-> [kind |-> "none", text |-> ""],
           upstream |-> FALSE, verified |-> {}]
NoSig == [pc |-> "idle", fn |-> "", params |-> NULL, signer |-> "", time |-> 0,
          iat |-> -1, exp |-> -1,
          result |-> [kind |-> "none", iat |-> -1, exp |-> -1, claims |-> NULL]]
NoResp == [error |-> [variant |-> "none", source |-> <<>>],
           response |-> [responded |-> FALSE, json |-> FALSE, status |-> 0,
                         error |-> "", detail |-> <<>>],
           configs |-> <<>>, logged |-> <<>>]
NoTok == [target |-> "", jwt |-> [signed_with |-> "", payload |-> ""], verifier |-> "",
          result |-> [kind |-> "none", token |-> [type |-> "", room_id |-> "", name |-> ""]]]

Init ==
    /\ store = {}
    /\ now = 0
    /\ pc = [p \in Procs |-> "idle"]
    /\ call = [p \in Procs |-> NoCall]
    /\ ret = [p \in Procs |-> NoRet]
    /\ sweep = "idle"
    /\ live = [p \in Procs |-> FALSE]
    /\ host = NoHost
    /\ hist = NoHist
    /\ auth = NoAuth
    /\ sig = NoSig
    /\ resp = NoResp
    /\ tok = NoTok
    /\ cred = NoCred


(***************************************************************************)
(* The statements, as functions of the table.                              *)
(***************************************************************************)
\* The attr_id a call addresses ("" for a call that addresses none).
Target(c) ==
    CASE c.op = "persist" -> c.session.attr_id
      [] c.op = "register" -> c.attr_id
      [] OTHER -> ""

\* Mutation: every failure of the INSERT is passed on as a storage error.
PersistError_Generic(code) == Err("Postgres")

\* res.map_err of persist: a uniqueness violation becomes BadRequest.
PersistError(code) ==
    IF code = "UNIQUE_VIOLATION" THEN Err("BadRequest") ELSE Err("Postgres")

\* Mutation: INSERT .. ON CONFLICT (attr_id) DO UPDATE, the new session
\* replaces the row.
PersistRows_Upsert(rows, this, t) ==
    {x \in rows : x.attr_id # this.attr_id} \cup {InsertRow(this, t)}

\* persist: INSERT INTO session (...) VALUES (..., now()), then map_err.
PersistRows(rows, this, t) ==
    IF UniqueViolation(rows, InsertRow(this, t))
    THEN rows
    ELSE rows \cup {InsertRow(this, t)}

\* Mutation: the result of the INSERT is dropped.
PersistResult_AlwaysOk(rows, this, t) == Ok

PersistResult(rows, this, t) ==
    IF UniqueViolation(rows, InsertRow(this, t))
    THEN PersistError("UNIQUE_VIOLATION")
    ELSE Ok

\* Mutation: the WHERE clause without "auth_result IS NULL".
RegisterWhere_AnyResult(x, attr_id) == x.attr_id = attr_id

\* WHERE auth_result IS NULL AND attr_id = $2
RegisterWhere(x, attr_id) == x.auth_result = NULL /\ x.attr_id = attr_id

\* Mutation: last_activity is refreshed for every row of the attr_id, the
\* result only where there is none.
RegisterRows_TouchesRegistered(rows, attr_id, auth_result, t) ==
    { IF x.attr_id = attr_id
      THEN [x EXCEPT !.auth_result = IF @ = NULL THEN auth_result ELSE @,
                     !.last_activity = t]
      ELSE x : x \in rows }

\* Mutation: the result is set, last_activity is left as it was.
RegisterRows_KeepsActivity(rows, attr_id, auth_result, t) ==
    { IF RegisterWhere(x, attr_id)
      THEN [x EXCEPT !.auth_result = auth_result]
      ELSE x : x \in rows }

\* Mutation: the UPDATE also refreshes the other sessions of the row's room.
RegisterRows_TouchesRoom(rows, attr_id, auth_result, t) ==
    { IF RegisterWhere(x, attr_id)
      THEN [x EXCEPT !.auth_result = auth_result, !.last_activity = t]
      ELSE IF \E y \in rows : RegisterWhere(y, attr_id) /\ y.room_id = x.room_id
           THEN [x EXCEPT !.last_activity = t]
           ELSE x : x \in rows }

\* UPDATE session SET (auth_result, last_activity) = ($1, now()) WHERE ...
RegisterRows(rows, attr_id, auth_result, t) ==
    { IF RegisterWhere(x, attr_id)
      THEN [x EXCEPT !.auth_result = auth_result, !.last_activity = t]
      ELSE x : x \in rows }

\* The number of rows the UPDATE reports.
RegisterCount(rows, attr_id) ==
    Cardinality({x \in rows : RegisterWhere(x, attr_id)})

\* Mutation: the row count is not looked at.
RegisterResult_IgnoresCount(n) == Ok

\* match n { 1 => Ok(()), _ => Err(Error::NotFound) }
RegisterResult(n) == IF n = 1 THEN Ok ELSE Err("NotFound")

\* Mutation: no condition on the room.
FindWhere_AnyRoom(x, room_id) == TRUE

\* WHERE room_id = $1
FindWhere(x, room_id) == x.room_id = room_id

\* Mutation: a plain read, last_activity is left alone.
FindRows_NoTouch(rows, room_id, t) == rows

\* Mutation: the statement stops after the first row of the room.
FindRows_FirstRow(rows, room_id, t) ==
    IF \E x \in rows : x.room_id = room_id
    THEN LET first == CHOOSE x \in rows : x.room_id = room_id
         IN (rows \ {first}) \cup {[first EXCEPT !.last_activity = t]}
    ELSE rows

\* UPDATE session SET last_activity = now() WHERE room_id = $1
FindRows(rows, room_id, t) ==
    { IF FindWhere(x, room_id) THEN [x EXCEPT !.last_activity = t] ELSE x
      : x \in rows }

\* A returned row as a Session (the closure of rows.into_iter().map).
RowToSession(r) ==
    [guest_token |-> [id |-> r.session_id,
                      room_id |-> r.room_id,
                      domain |-> DomainFromStr(r.domain),
                      redirect_url |-> r.redirect_url,
                      name |-> r.name,
                      instance |-> r.instance],
     purpose |-> r.purpose,
     attr_id |-> r.attr_id,
     auth_result |-> r.auth_result]

\* Mutation: no check for an empty result.
FindResult_EmptyOk(returned) ==
    IF \E r \in returned : DomainFromStr(r.domain) = ParseError
    THEN Err("Parse")
    ELSE OkSessions({RowToSession(r) : r \in returned})

\* find_by_room_id's result from the rows of RETURNING.
FindResult(returned) ==
    IF returned = {} THEN Err("NotFound")
    ELSE IF \E r \in returned : DomainFromStr(r.domain) = ParseError
         THEN Err("Parse")
         ELSE OkSessions({RowToSession(r) : r \in returned})

\* Mutation: an interval of two hours.
CleanWhere_TwoHours(x, t) == x.last_activity < t - 2 * Hour

\* Mutation: <= in place of <.
CleanWhere_Inclusive(x, t) == x.last_activity <= t - Hour

\* WHERE last_activity < now() - INTERVAL '1 hour'
CleanWhere(x, t) == x.last_activity < t - Hour

\* Mutation: the DELETE stops after one row.
CleanRows_OneRow(rows, t) ==
    IF \E x \in rows : CleanWhere(x, t)
    THEN rows \ {CHOOSE x \in rows : CleanWhere(x, t)}
    ELSE rows

\* DELETE FROM session WHERE ...
CleanRows(rows, t) == {x \in rows : ~CleanWhere(x, t)}

(***************************************************************************)
(* Requests: issuing a call.                                               *)
(***************************************************************************)
Issue(p, c, l) ==
    /\ pc[p] # "called"
    /\ pc' = [pc EXCEPT ![p] = "called"]
    /\ call' = [call EXCEPT ![p] = c]
    /\ ret' = [ret EXCEPT ![p] = NoRet]
    /\ live' = [q \in Procs |->
            IF q = p THEN l
            ELSE live[q] /\ ~(pc[p] = "done" /\ call[p].op = call[q].op
                                /\ Target(call[p]) = Target(call[q]))]
    /\ UNCHANGED <<store, now, sweep, others>>

CallPersist(p) ==
    \E s \in Sessions :
        Issue(p, [NoCall EXCEPT !.op = "persist", !.session = s],
              ~\E x \in store : x.attr_id = s.attr_id)

CallRegister(p) ==
    \E a \in AttrIds, v \in Payloads :
        Issue(p, [NoCall EXCEPT !.op = "register", !.attr_id = a, !.auth_result = v],
              \E x \in store : x.attr_id = a /\ x.auth_result = NULL)

CallFind(p) ==
    \E r \in RoomIds : Issue(p, [NoCall EXCEPT !.op = "find", !.room_id = r], FALSE)

(***************************************************************************)
(* Requests: the statement executes and the call returns.                  *)
(***************************************************************************)
Finish(p, r) ==
    /\ pc' = [pc EXCEPT ![p] = "done"]
    /\ ret' = [ret EXCEPT ![p] = r]
    /\ UNCHANGED <<now, call, sweep, others>>

\* Session::persist
Persist(p) ==
    /\ pc[p] = "called" /\ call[p].op = "persist"
    /\ LET this == call[p].session
       IN /\ store' = PersistRows(store, this, now)
          /\ Finish(p, PersistResult(store, this, now))
    /\ UNCHANGED live

\* Session::register_auth_result
RegisterAuthResult(p) ==
    /\ pc[p] = "called" /\ call[p].op = "register"
    /\ LET a == call[p].attr_id
       IN /\ store' = RegisterRows(store, a, call[p].auth_result, now)
          /\ Finish(p, RegisterResult(RegisterCount(store, a)))
    /\ UNCHANGED live

\* Session::find_by_room_id
FindByRoomId(p) ==
    /\ pc[p] = "called" /\ call[p].op = "find"
    /\ LET r == call[p].room_id
       IN /\ store' = FindRows(store, r, now)
          /\ Finish(p, FindResult({x \in store' : FindWhere(x, r)}))
    /\ UNCHANGED live

\* The periodic sweep calls clean_db (which takes no argument).
CallClean ==
    /\ sweep = "idle"
    /\ sweep' = "called"
    /\ UNCHANGED <<store, now, pc, call, ret, live, others>>

\* clean_db: the DELETE executes; the call returns Ok(()) whatever it deleted.
CleanDb ==
    /\ sweep = "called"
    /\ sweep' = "idle"
    /\ store' = CleanRows(store, now)
    /\ live' = [q \in Procs |->
            live[q] /\ Target(call[q]) \notin {x.attr_id : x \in store \ store'}]
    /\ UNCHANGED <<now, pc, call, ret, others>>

\* Time passes.
Tick ==
    /\ now < MaxTime
    /\ now' = now + 1
    /\ UNCHANGED <<store, pc, call, ret, sweep, live, others>>

Next ==
    \/ \E p \in Procs : CallPersist(p)
    \/ \E p \in Procs : CallRegister(p)
    \/ \E p \in Procs : CallFind(p)
    \/ \E p \in Procs : Persist(p)
    \/ \E p \in Procs : RegisterAuthResult(p)
    \/ \E p \in Procs : FindByRoomId(p)
    \/ CallClean
    \/ CleanDb
    \/ Tick

Spec == Init /\ [][Next]_vars

(***************************************************************************)
(* Vocabulary of the properties.                                           *)
(***************************************************************************)
HasRow(a) == \E x \in store : x.attr_id = a

\* Request p has finished a call of operation op.
Done(p, op) == pc[p] = "done" /\ call[p].op = op

\* The step in which the statement of p's call of op executes.
Executes(p, op) == pc[p] = "called" /\ call[p].op = op /\ pc'[p] = "done"

\* The step in which clean_db's DELETE executes.
Sweeps == sweep = "called" /\ sweep' = "idle"

\* The finished calls of op on attr_id a that raced: all were issued against
\* the same row state (for register: the row present with no result; for
\* persist: no row), before any of them executed, and that row has not been
\* reaped since.
Racing(op, a) == {p \in Procs : Done(p, op) /\ Target(call[p]) = a /\ live[p]}

NotFound == Err("NotFound")
BadRequest == Err("BadRequest")

(***************************************************************************)
(* C1: when two or more register_auth_result calls for the same attr_id    *)
(* with different payloads race on a session without a result, exactly     *)
(* one returns Ok, every other returns NotFound, and the stored            *)
(* auth_result is the payload of the call that returned Ok.                *)
(***************************************************************************)
C1_ExactlyOneWinner ==
    \A a \in AttrIds :
        LET S == Racing("register", a)
        IN (/\ Cardinality(S) >= 2
            /\ \A p, q \in S : p # q => call[p].auth_result # call[q].auth_result)
           => \E w \in S :
                /\ ret[w] = Ok
                /\ \A o \in S \ {w} : ret[o] = NotFound
                /\ \E x \in store : x.attr_id = a /\ x.auth_result = call[w].auth_result

C1_Witness ==
    \E p, q \in Procs :
        /\ p # q
        /\ {p, q} \subseteq Racing("register", "a1")
        /\ call[p].auth_result = "v1" /\ call[q].auth_result = "v2"
        /\ ret[q] = Ok /\ ret[p] = NotFound

(***************************************************************************)
(* C2: the auth_result of a session is monotonic: once it is not null, no  *)
(* step of any operation makes it null or changes its value for as long    *)
(* as the session's row exists.                                            *)
(***************************************************************************)
C2_AuthResultMonotonic ==
    [][\A x \in store : x.auth_result # NULL =>
          \A y \in store' : y.attr_id = x.attr_id => y.auth_result = x.auth_result]_vars

C2_Witness ==
    \E p, q \in Procs :
        /\ Done(p, "register") /\ ret[p] = NotFound
        /\ Done(q, "find") /\ ret[q].kind = "Ok"
        /\ \E x \in store, s \in ret[q].sessions :
              /\ x.attr_id = call[p].attr_id /\ s.attr_id = x.attr_id
              /\ x.auth_result \in Payloads \ {call[p].auth_result}
              /\ s.auth_result = x.auth_result
              /\ x.last_activity < now

(***************************************************************************)
(* C3: persist of a session whose attr_id is that of an existing row       *)
(* returns BadRequest (not a generic Postgres error), inserts nothing and  *)
(* leaves the existing row unmodified in every column.                     *)
(***************************************************************************)
C3_PersistCollision ==
    [][\A p \in Procs :
          (Executes(p, "persist") /\ HasRow(call[p].session.attr_id))
          => (ret'[p] = BadRequest /\ store' = store)]_vars

C3_Witness ==
    \E p \in Procs :
        /\ Done(p, "persist") /\ ret[p] = BadRequest
        /\ \E x \in store :
              /\ x.attr_id = call[p].session.attr_id
              /\ x.session_id # call[p].session.guest_token.id
              /\ x.auth_result = "v2"
              /\ x.last_activity < now

(***************************************************************************)
(* C4: at most one row exists per attr_id in every reachable state, and    *)
(* when several persist calls with the same attr_id race, exactly one      *)
(* inserts its row and each other call returns BadRequest.                 *)
(***************************************************************************)
C4_UniqueAttrId ==
    /\ \A x, y \in store : x.attr_id = y.attr_id => x = y
    /\ \A a \in AttrIds :
          LET S == Racing("persist", a)
          IN Cardinality(S) >= 2
             => \E w \in S :
                  /\ ret[w] = Ok
                  /\ \A o \in S \ {w} : ret[o] = BadRequest
                  /\ \E x \in store :
                        /\ x.attr_id = a
                        /\ x.session_id = call[w].session.guest_token.id
                        /\ x.room_id = call[w].session.guest_token.room_id

C4_Witness ==
    \E p, q \in Procs :
        /\ p # q
        /\ {p, q} \subseteq Racing("persist", "a1")
        /\ call[p].session.guest_token.id = "s1"
        /\ call[q].session.guest_token.id = "s3"
        /\ ret[q] = Ok /\ ret[p] = BadRequest

(***************************************************************************)
(* C5: register_auth_result returns Ok exactly when one row with the       *)
(* given attr_id and a null auth_result exists when the update executes;   *)
(* otherwise it returns NotFound, whether the attr_id has no row or the    *)
(* row already holds a result, and then no row is changed.                 *)
(***************************************************************************)
C5_RegisterOutcome ==
    [][\A p \in Procs :
          Executes(p, "register") =>
            LET open == {x \in store : x.attr_id = call[p].attr_id /\ x.auth_result = NULL}
            IN IF Cardinality(open) = 1
               THEN /\ ret'[p] = Ok
                    /\ \E y \in store' : /\ y.attr_id = call[p].attr_id
                                          /\ y.auth_result = call[p].auth_result
               ELSE ret'[p] = NotFound /\ store' = store]_vars

C5_Witness ==
    \E p, q \in Procs :
        /\ Done(p, "register") /\ ret[p] = NotFound /\ ~HasRow(call[p].attr_id)
        /\ Done(q, "register") /\ ret[q] = NotFound
        /\ \E x \in store :
              /\ x.attr_id = call[q].attr_id
              /\ x.auth_result \in Payloads \ {call[q].auth_result}
              /\ x.last_activity < now

(***************************************************************************)
(* C6: with N sessions of distinct attr_id stored under one room_id,       *)
(* find_by_room_id for that room returns exactly those N sessions and, in  *)
(* the same step, sets last_activity of each of them to the time of the    *)
(* call.                                                                   *)
(***************************************************************************)
C6_FindReturnsRoom ==
    [][\A p \in Procs :
          Executes(p, "find") =>
            LET room == {x \in store : x.room_id = call[p].room_id}
            IN room # {} =>
                 /\ ret'[p].kind = "Ok"
                 /\ Cardinality(ret'[p].sessions) = Cardinality(room)
                 /\ {s.attr_id : s \in ret'[p].sessions} = {x.attr_id : x \in room}
                 /\ \A s \in ret'[p].sessions : s.guest_token.room_id = call[p].room_id
                 /\ \A x \in room : [x EXCEPT !.last_activity = now] \in store']_vars

C6_Witness ==
    \E p \in Procs :
        /\ Done(p, "find") /\ ret[p].kind = "Ok"
        /\ Cardinality(ret[p].sessions) = 2
        /\ now = MaxTime
        /\ \A x \in store : x.room_id = call[p].room_id /\ x.last_activity = now

(***************************************************************************)
(* C7: find_by_room_id for a room_id without session rows returns          *)
(* NotFound, not an empty list, and changes no row of the store.           *)
(***************************************************************************)
C7_FindEmptyRoom ==
    [][\A p \in Procs :
          (Executes(p, "find") /\ ~\E x \in store : x.room_id = call[p].room_id)
          => (ret'[p] = NotFound /\ store' = store)]_vars

C7_Witness ==
    \E p \in Procs :
        /\ Done(p, "find") /\ ret[p] = NotFound
        /\ store # {}
        /\ \A x \in store : x.room_id # call[p].room_id /\ x.last_activity < now

(***************************************************************************)
(* C8: after persist(s) and a successful register_auth_result(s.attr_id,   *)
(* v), find_by_room_id of s's room returns s with auth_result = Some(v)    *)
(* and with attr_id, purpose and every guest_token field as persisted.     *)
(***************************************************************************)
C8_RoundTrip ==
    [][\A q \in Procs :
          Executes(q, "find") =>
            \A p \in Procs, s \in Sessions :
                (/\ Done(p, "register") /\ ret[p] = Ok /\ live[p]
                 /\ s.attr_id = call[p].attr_id
                 /\ s.guest_token.room_id = call[q].room_id
                 /\ \E x \in store : x.attr_id = s.attr_id /\ x.session_id = s.guest_token.id)
                => /\ ret'[q].kind = "Ok"
                   /\ [s EXCEPT !.auth_result = call[p].auth_result] \in ret'[q].sessions]_vars

C8_Witness ==
    \E p, q \in Procs :
        /\ Done(p, "register") /\ ret[p] = Ok /\ live[p]
        /\ Done(q, "find") /\ ret[q].kind = "Ok"
        /\ \E s \in Sessions :
              /\ s.attr_id = call[p].attr_id
              /\ s.guest_token.domain = "User"
              /\ [s EXCEPT !.auth_result = call[p].auth_result] \in ret[q].sessions

(***************************************************************************)
(* C9: clean_db deletes only rows whose last_activity is more than one     *)
(* hour old and leaves every other row untouched in all columns, whatever  *)
(* requests it is interleaved with.                                        *)
(***************************************************************************)
C9_CleanOnlyStale ==
    [][Sweeps =>
          /\ store' \subseteq store
          /\ \A x \in store : x \notin store' => now - x.last_activity > Hour]_vars

C9_Witness ==
    \E p, q \in Procs :
        /\ sweep = "idle"
        /\ Done(p, "persist") /\ ret[p] = Ok /\ ~HasRow(call[p].session.attr_id)
        /\ Done(q, "persist") /\ ret[q] = Ok
        /\ \E x \in store :
              /\ x.attr_id = call[q].session.attr_id
              /\ now - x.last_activity = Hour

(***************************************************************************)
(* C10: clean_db removes all sessions that have been inactive for an hour  *)
(* or more: a row whose last_activity is exactly one hour before the       *)
(* sweep is deleted by it.                                                 *)
(***************************************************************************)
C10_CleanAtOneHour ==
    [][Sweeps => \A x \in store : now - x.last_activity >= Hour => x \notin store']_vars

(***************************************************************************)
(* Keys and platform tokens.                                               *)
(***************************************************************************)
\* The keys a Config holds: the verifier and decrypter of attribute bundles,
\* and the HMAC verifiers of the platform's guest and host tokens.
Config ==
    [validator |-> "attr_key", decrypter |-> "dec_key",
     guest_validator |-> "guest_secret", host_validator |-> "host_secret"]

\* A key none of the verifiers accepts.
ForeignKey == "foreign_key"

\* The payload claim of a platform token: absent, not a HostToken, or a
\* HostToken naming a room.
NoClaim == "none"
BadClaim == "malformed"

\* Host tokens as they arrive: compact JWTs, signed with some key.
HostJwts ==
    [signed_with : {Config.host_validator, Config.guest_validator, Config.validator},
     payload : RoomIds \cup {NoClaim, BadClaim}]

JwtErr(e) == [kind |-> e, room_id |-> ""]

\* The fields serde requires of each (the names they have in the claim).
HostFields == {"id", "domain", "roomId", "instance"}
GuestFields == HostFields \cup {"redirectUrl", "name"}

\* The payload claims of guest tokens, one per room.
GuestClaims == {"g1", "g2"}
\* What a payload claim holds: a HostToken's fields for a room, a
\* GuestToken's fields for a room, or something that is no object.
ClaimOf(payload) ==
    CASE payload \in RoomIds ->
             [object |-> TRUE, fields |-> HostFields, room_id |-> payload, name |-> ""]
      [] payload = "g1" ->
             [object |-> TRUE, fields |-> GuestFields, room_id |-> "r1", name |-> "n1"]
      [] payload = "g2" ->
             [object |-> TRUE, fields |-> GuestFields, room_id |-> "r2", name |-> "n2"]
      [] OTHER -> [object |-> FALSE, fields |-> {}, room_id |-> "", name |-> ""]

NoToken == [type |-> "", room_id |-> "", name |-> ""]
TokenErr(e) == [kind |-> e, token |-> NoToken]

\* Mutation: the token is decoded and its signature is not looked at.
DecodeWithVerifier_Unverified(jwt, verifier) == TRUE

\* josekit::jwt::decode_with_verifier(jwt, validator)?
DecodeWithVerifier(jwt, verifier) == jwt.signed_with = verifier

\* serde_json::from_value(claim.clone())?: fields the type does not have are
\* skipped, every field it has must be there.
FromValue(target, claim) ==
    IF claim.object /\ (IF target = "HostToken" THEN HostFields ELSE GuestFields) \subseteq claim.fields
    THEN [kind |-> "Ok",
          token |-> [type |-> target, room_id |-> claim.room_id,
                     name |-> IF target = "GuestToken" THEN claim.name ELSE ""]]
    ELSE TokenErr("Json")

\* FromPlatformJwt::from_platform_jwt: verify, then take the payload claim,
\* then deserialize it.
FromPlatformJwtFor(target, jwt, verifier) ==
    IF ~DecodeWithVerifier(jwt, verifier) THEN TokenErr("Jwt")
    ELSE IF jwt.payload = NoClaim THEN TokenErr("InvalidStructure")
    ELSE FromValue(target, ClaimOf(jwt.payload))

\* HostToken::from_platform_jwt, with the room of the token it returns.
FromPlatformJwt(jwt, verifier) ==
    LET host_token == FromPlatformJwtFor("HostToken", jwt, verifier)
    IN [kind |-> host_token.kind, room_id |-> host_token.token.room_id]

(***************************************************************************)
(* Attribute bundles: authentication results, signed and encrypted.        *)
(***************************************************************************)
\* Attribute keys are strings; they are kept as their bytes so that the
\* order of keys is the order of the bytes.
Key_age == <<97, 103, 101>>
Key_email == <<101, 109, 97, 105, 108>>
Key_ag == <<97, 103>>
Key_Zip == <<90, 105, 112>>

NoAttributes == [k \in {} |-> ""]
Attributes_v1 == [k \in {Key_age, Key_email} |-> IF k = Key_age THEN "42" ELSE "hd@example.com"]
Attributes_v3 ==
    [k \in {Key_age, Key_ag, Key_Zip} |->
        IF k = Key_Zip THEN "1234" ELSE IF k = Key_ag THEN "ag" ELSE "43"]

\* What a blob is: whether it is a JWE at all, the key it is encrypted for,
\* the key of its signature and whether the signature still matches, whether
\* its nominal expiry has passed, and the AuthResult inside.
Bundle(jwe, intact, expired, some, attributes) ==
    [jwe |-> jwe, encrypted_for |-> Config.decrypter, signed_with |-> Config.validator,
     intact |-> intact, expired |-> expired,
     some |-> some, attributes |-> attributes]

Blobs == {"v1", "v2", "v3", "v4", "v5", "v6", "v7"}

Open(blob) ==
    CASE blob = "v1" -> Bundle(TRUE, TRUE, FALSE, TRUE, Attributes_v1)
      [] blob = "v2" -> Bundle(FALSE, FALSE, FALSE, FALSE, NoAttributes)
      [] blob = "v3" -> Bundle(TRUE, TRUE, TRUE, TRUE, Attributes_v3)
      [] blob = "v4" -> Bundle(TRUE, FALSE, FALSE, TRUE, Attributes_v1)
      [] blob = "v5" -> Bundle(TRUE, FALSE, TRUE, TRUE, Attributes_v1)
      [] blob = "v6" -> Bundle(TRUE, TRUE, FALSE, FALSE, NoAttributes)
      [] blob = "v7" -> [Bundle(TRUE, TRUE, FALSE, TRUE, Attributes_v1)
                            EXCEPT !.signed_with = ForeignKey]
      [] OTHER -> Bundle(FALSE, FALSE, FALSE, FALSE, NoAttributes)

DecryptErr == [kind |-> "Jwe", some |-> FALSE, attributes |-> NoAttributes]
DecryptOk(b) == [kind |-> "Ok", some |-> b.some, attributes |-> b.attributes]

\* id_contact_jwt::dangerous_decrypt_auth_result_without_verifying_expiration:
\* decrypts, checks the signature, does not look at the expiry.
DecryptWithoutVerifyingExpiration(blob, validator, decrypter) ==
    LET b == Open(blob)
    IN IF b.jwe /\ b.encrypted_for = decrypter /\ b.signed_with = validator /\ b.intact
       THEN DecryptOk(b)
       ELSE DecryptErr

(***************************************************************************)
(* collect_credentials.                                                    *)
(***************************************************************************)
\* Mutation: a decryption that enforces the expiry.
Decrypt_VerifyingExpiration(result, config) ==
    IF Open(result).expired THEN DecryptErr
    ELSE DecryptWithoutVerifyingExpiration(result, config.validator, config.decrypter)

\* The decryption collect_credentials calls, with the keys it passes.
Decrypt(result, config) ==
    DecryptWithoutVerifyingExpiration(result, config.validator, config.decrypter)

\* Mutation: .ok() in place of ?, a failure becomes "no attributes".
Fails_Swallowed(d) == FALSE

\* The ? operator: a failed decryption ends collect_credentials.
Fails(d) == d.kind # "Ok"

\* Mutation: a record for every guest with a blob.
HasAttributes_Always(d) == TRUE

\* if let Some(attributes) = ... .attributes
HasAttributes(d) == d.some

CredOk(credentials) == [kind |-> "Ok", credentials |-> credentials]
CredErr(e) == [kind |-> e, credentials |-> <<>>]

\* The loop of collect_credentials from guest i on, with the credentials
\* pushed so far.
RECURSIVE CollectFrom(_, _, _, _)
CollectFrom(guest_auth_results, config, i, credentials) ==
    IF i > Len(guest_auth_results) THEN CredOk(credentials)
    ELSE LET guest_auth_result == guest_auth_results[i]
         IN IF guest_auth_result.auth_result = NULL
            THEN CollectFrom(guest_auth_results, config, i + 1, credentials)
            ELSE LET d == Decrypt(guest_auth_result.auth_result, config)
                 IN IF Fails(d) THEN CredErr(d.kind)
                    ELSE IF HasAttributes(d)
                         THEN CollectFrom(guest_auth_results, config, i + 1,
                                  Append(credentials,
                                         [name |-> guest_auth_result.name,
                                          purpose |-> guest_auth_result.purpose,
                                          attributes |-> d.attributes]))
                         ELSE CollectFrom(guest_auth_results, config, i + 1, credentials)

CollectCredentials(guest_auth_results, config) ==
    CollectFrom(guest_auth_results, config, 1, <<>>)

\* The GuestAuthResult get_credentials_for_host makes of a session.
GuestAuthResultOf(session) ==
    [purpose |-> session.purpose, name |-> session.guest_token.name,
     auth_result |-> session.auth_result]

\* Every order in which the elements of a set can come out of it.
Orders(S) ==
    {q \in [1..Cardinality(S) -> S] : \A i, j \in 1..Cardinality(S) : q[i] = q[j] => i = j}

(***************************************************************************)
(* The store, statement by statement, with its history: sessions are       *)
(* persisted, results are registered, rooms are read, the sweep runs       *)
(* clean_db, each statement in one step.                                   *)
(***************************************************************************)
\* The history of the rows after a statement that touched the rows of
\* `touched`: a row that was inserted has not been touched, a row that was
\* touched remembers when, and how old it was; a deleted row leaves nothing.
Touched(rows, rows2, touched, t) ==
    [a \in AttrIds |->
        IF ~\E y \in rows2 : y.attr_id = a THEN NoTouch
        ELSE IF ~\E x \in rows : x.attr_id = a THEN [at |-> t, prev |-> -1]
        ELSE IF a \in touched
             THEN [at |-> t, prev |-> (CHOOSE x \in rows : x.attr_id = a).last_activity]
             ELSE hist.touch[a]]

\* Session::persist
StorePersist ==
    \E s \in Sessions :
        /\ store' = PersistRows(store, s, now)
        /\ hist' = [hist EXCEPT !.touch = Touched(store, store', {}, now)]
        /\ UNCHANGED <<now, pc, call, ret, sweep, live, host, cred, rest>>

\* Session::register_auth_result
StoreRegister ==
    \E a \in AttrIds, v \in Payloads :
        /\ store' = RegisterRows(store, a, v, now)
        /\ hist' = [hist EXCEPT !.touch =
                        Touched(store, store',
                                IF RegisterResult(RegisterCount(store, a)) = Ok
                                THEN {a} ELSE {}, now)]
        /\ UNCHANGED <<now, pc, call, ret, sweep, live, host, cred, rest>>

\* Session::find_by_room_id
StoreFind ==
    \E r \in RoomIds :
        /\ store' = FindRows(store, r, now)
        /\ hist' = [hist EXCEPT !.touch =
                        Touched(store, store',
                                {x.attr_id : x \in {x \in store : FindWhere(x, r)}}, now)]
        /\ UNCHANGED <<now, pc, call, ret, sweep, live, host, cred, rest>>

\* clean_db's DELETE executes.  The history keeps when the sweep ran, whether
\* the sweep before it ran at that same time, and what the sweeps at that
\* time deleted.
StoreCleanDb ==
    /\ sweep = "called"
    /\ sweep' = "idle"
    /\ store' = CleanRows(store, now)
    /\ hist' = [touch |-> Touched(store, store', {}, now),
                swept |-> now,
                again |-> hist.swept = now,
                reaped |-> (IF hist.swept = now THEN hist.reaped ELSE {})
                            \cup {x.attr_id : x \in store \ store'},
                results |-> hist.results]
    /\ UNCHANGED <<now, pc, call, ret, live, host, cred, rest>>

StoreNext ==
    \/ StorePersist
    \/ StoreRegister
    \/ StoreFind
    \/ CallClean
    \/ StoreCleanDb
    \/ Tick

StoreSpec == Init /\ [][StoreNext]_vars

\* The clock advances and the sweep is run again and again.
FairStoreSpec ==
    /\ Init /\ [][StoreNext]_vars
    /\ WF_vars(Tick) /\ WF_vars(CallClean) /\ WF_vars(StoreCleanDb)

(***************************************************************************)
(* A room: guests persist sessions and register authentication results,    *)
(* the host polls the room with get_credentials_for_host, the sweep runs    *)
(* clean_db.  The host's request takes its steps one after the other, with *)
(* the others' statements in between.                                      *)
(***************************************************************************)
\* A guest's session is persisted.
GuestPersist ==
    \E s \in Sessions :
        /\ store' = PersistRows(store, s, now)
        /\ UNCHANGED <<now, pc, call, ret, sweep, live, host, hist, cred, rest>>

\* The authentication callback registers a guest's result.
GuestRegister ==
    \E a \in AttrIds, v \in Payloads :
        /\ store' = RegisterRows(store, a, v, now)
        /\ UNCHANGED <<now, pc, call, ret, sweep, live, host, hist, cred, rest>>

\* The host sends its token.
HostCall ==
    \E jwt \in HostJwts :
        /\ host.pc \in {"idle", "done"}
        /\ host' = [NoHost EXCEPT !.pc = "called", !.jwt = jwt]
        /\ UNCHANGED <<store, now, pc, call, ret, sweep, live, hist, cred, rest>>

\* Mutation: the verifier of attribute bundles, Config::validator().
HostVerifier_Validator(config) == config.validator

\* The verifier get_credentials_for_host checks the host's token with.
HostVerifier(config) == config.host_validator

\* get_credentials_for_host: HostToken::from_platform_jwt(..)?
HostVerify ==
    /\ host.pc = "called"
    /\ LET token == FromPlatformJwt(host.jwt, HostVerifier(Config))
       IN host' = IF token.kind = "Ok"
                  THEN [host EXCEPT !.pc = "verified", !.room_id = token.room_id]
                  ELSE [host EXCEPT !.pc = "done", !.kind = "Jwe"]
    /\ UNCHANGED <<store, now, pc, call, ret, sweep, live, hist, cred, rest>>

\* get_credentials_for_host: Session::find_by_room_id(host_token.room_id, &db)?
\* The rows come back in some order.
HostFind ==
    /\ host.pc = "verified"
    /\ store' = FindRows(store, host.room_id, now)
    /\ LET found == FindResult({x \in store' : FindWhere(x, host.room_id)})
           read == [host EXCEPT !.before = {x \in store : FindWhere(x, host.room_id)},
                                !.read_at = now]
       IN IF found.kind = "Ok"
          THEN \E sessions \in Orders(found.sessions) :
                  host' = [read EXCEPT !.pc = "found", !.sessions = sessions]
          ELSE host' = [read EXCEPT !.pc = "done", !.kind = found.kind]
    /\ UNCHANGED <<now, pc, call, ret, sweep, live, hist, cred, rest>>

\* Mutation: a request that fails undoes its refresh, the rows it read get
\* back the last_activity they had.
HostCollect_RollsBack ==
    /\ host.pc = "found"
    /\ LET guest_auth_results ==
               [i \in 1..Len(host.sessions) |-> GuestAuthResultOf(host.sessions[i])]
           collected == CollectCredentials(guest_auth_results, Config)
       IN /\ host' = [host EXCEPT !.pc = "done", !.kind = collected.kind,
                                  !.credentials = collected.credentials]
          /\ store' = IF collected.kind = "Ok" THEN store
                      ELSE { IF \E y \in host.before : y.attr_id = x.attr_id
                             THEN [x EXCEPT !.last_activity =
                                      (CHOOSE y \in host.before :
                                           y.attr_id = x.attr_id).last_activity]
                             ELSE x : x \in store }
    /\ UNCHANGED <<now, pc, call, ret, sweep, live, hist, cred, rest>>

\* get_credentials_for_host: the sessions become GuestAuthResults, and
\* collect_credentials gives the request's result.
HostCollect ==
    /\ host.pc = "found"
    /\ LET guest_auth_results ==
               [i \in 1..Len(host.sessions) |-> GuestAuthResultOf(host.sessions[i])]
           collected == CollectCredentials(guest_auth_results, Config)
       IN host' = [host EXCEPT !.pc = "done", !.kind = collected.kind,
                               !.credentials = collected.credentials]
    /\ UNCHANGED <<store, now, pc, call, ret, sweep, live, hist, cred, rest>>

RoomNext ==
    \/ GuestPersist
    \/ GuestRegister
    \/ HostCall
    \/ HostVerify
    \/ HostFind
    \/ HostCollect
    \/ CallClean
    \/ CleanDb
    \/ Tick

RoomSpec == Init /\ [][RoomNext]_vars

(***************************************************************************)
(* Vocabulary of the room's properties.                                    *)
(***************************************************************************)
\* When the row was inserted or last touched, and how old it was when touched.
TouchedAt(x) == hist.touch[x.attr_id].at
WasTouched(x) == hist.touch[x.attr_id].prev >= 0

\* The history agrees with the column.
HistAgrees == \A x \in store : x.last_activity = TouchedAt(x)

(***************************************************************************)
(* C11: a read is a keepalive.  Once find_by_room_id has returned a        *)
(* session, or register_auth_result has succeeded for it, no clean_db that *)
(* runs within the hour after it deletes the session, however old the      *)
(* session was when it was touched; so a room that is polled at least once *)
(* per hour loses no session to clean_db.                                  *)
(***************************************************************************)
C11_Keepalive ==
    [][Sweeps =>
          \A x \in store :
              (WasTouched(x) /\ now - TouchedAt(x) <= Hour) => x \in store']_vars

\* A sweep has run after a read touched a row that was stale.
C11_Witness ==
    /\ sweep = "idle" /\ hist.swept = now
    /\ \E x \in store :
          /\ x.auth_result = NULL
          /\ WasTouched(x) /\ TouchedAt(x) = now
          /\ now - hist.touch[x.attr_id].prev > Hour

(***************************************************************************)
(* C12: a session that has been neither read nor registered for more than  *)
(* one hour is deleted by the next clean_db; and when the clock advances   *)
(* and clean_db is run again and again, a session that is no longer        *)
(* touched does not stay in the store.                                     *)
(***************************************************************************)
C12_Reaped ==
    /\ [][Sweeps =>
             \A x \in store : now - TouchedAt(x) > Hour => x \notin store']_vars
    /\ \A a \in AttrIds, t \in 0..(MaxTime - Hour - 1) :
           (\E x \in store : x.attr_id = a /\ TouchedAt(x) = t)
               ~> ~(\E x \in store : x.attr_id = a /\ TouchedAt(x) = t)

\* A sweep has deleted a row and left one that is an hour old.
C12_Witness ==
    /\ sweep = "idle" /\ hist.swept = now
    /\ hist.reaped # {}
    /\ \E x \in store : now - TouchedAt(x) = Hour

(***************************************************************************)
(* C13: clean_db is idempotent.  A second run at the same point in time    *)
(* deletes nothing and leaves the store as the first run left it.          *)
(***************************************************************************)
C13_Idempotent ==
    /\ [](CleanRows(CleanRows(store, now), now) = CleanRows(store, now))
    /\ [][(Sweeps /\ hist.swept = now) => store' = store]_vars

\* Two sweeps have run at the same time, and the first deleted a row.
C13_Witness ==
    /\ sweep = "idle" /\ hist.swept = now
    /\ hist.again /\ hist.reaped # {}
    /\ store # {}

(***************************************************************************)
(* Vocabulary of the host's properties.                                    *)
(***************************************************************************)
\* The host's token carries a valid signature of the host secret.
HostSigned == host.jwt.signed_with = Config.host_validator

\* The credential was collected from session s.
CollectedFrom(credential, s) ==
    /\ credential.name = s.guest_token.name
    /\ credential.purpose = s.purpose
    /\ s.auth_result # NULL
    /\ credential.attributes = Open(s.auth_result).attributes

(***************************************************************************)
(* C14: find_by_room_id(r) returns only sessions of room r, and            *)
(* get_credentials_for_host returns credentials only from sessions of the  *)
(* room that the verified host token names: a result registered for a      *)
(* session of another room never reaches that host.                        *)
(***************************************************************************)
C14_RoomOnly ==
    /\ host.room_id # "" => HostSigned /\ host.room_id = host.jwt.payload
    /\ \A i \in 1..Len(host.sessions) :
           host.sessions[i].guest_token.room_id = host.room_id
    /\ \A j \in 1..Len(host.credentials) :
           \E i \in 1..Len(host.sessions) :
               /\ CollectedFrom(host.credentials[j], host.sessions[i])
               /\ \E s \in Sessions :
                      /\ s.guest_token = host.sessions[i].guest_token
                      /\ s.guest_token.room_id = host.jwt.payload

\* The host has the credentials of its room while another room holds a
\* session with a result.
C14_Witness ==
    /\ host.pc = "done" /\ host.kind = "Ok" /\ host.credentials # <<>>
    /\ \E x \in store : x.room_id # host.room_id /\ x.auth_result # NULL

(***************************************************************************)
(* C15: get_credentials_for_host uses the token's room only after it has   *)
(* verified the token with the host secret.  A token that is not validly   *)
(* signed with the host secret, be it signed with the guest secret or with *)
(* the key of the attribute signatures, is answered with an error, and the *)
(* request reads no session and refreshes no last_activity.                *)
(***************************************************************************)
C15_HostSecret ==
    /\ [](host.pc \in {"verified", "found"} => HostSigned)
    /\ []((host.pc = "done" /\ ~HostSigned) =>
              /\ host.kind = "Jwe"
              /\ host.room_id = "" /\ host.sessions = <<>> /\ host.credentials = <<>>)
    /\ [][(host' # host /\ ~(host'.jwt.signed_with = Config.host_validator))
              => store' = store]_vars

\* A token for room r1 signed with the key of the attribute signatures has
\* been rejected, and the room's stale session is as it was.
C15_Witness ==
    /\ host.pc = "done" /\ host.kind = "Jwe"
    /\ host.jwt.signed_with = Config.validator /\ host.jwt.payload = "r1"
    /\ \E x \in store : x.room_id = "r1" /\ now - x.last_activity > Hour

(***************************************************************************)
(* SortedCredentials and render_credentials.                               *)
(***************************************************************************)
\* str::cmp, the order of the bytes: -1 for Less, 0 for Equal, 1 for Greater.
RECURSIVE Cmp(_, _)
Cmp(a, b) ==
    IF a = <<>> THEN (IF b = <<>> THEN 0 ELSE -1)
    ELSE IF b = <<>> THEN 1
    ELSE IF Head(a) < Head(b) THEN -1
    ELSE IF Head(a) > Head(b) THEN 1
    ELSE Cmp(Tail(a), Tail(b))

\* The pairs of a HashMap, and the orders in which into_iter() can yield them.
Pairs(attributes) == {<<k, attributes[k]>> : k \in DOMAIN attributes}
IntoIter(attributes) == Orders(Pairs(attributes))

\* sort_by places x behind the elements that are not greater than it.
Insert(sorted, x) ==
    LET n == Cardinality({i \in 1..Len(sorted) : Cmp(sorted[i][1], x[1]) <= 0})
    IN SubSeq(sorted, 1, n) \o <<x>> \o SubSeq(sorted, n + 1, Len(sorted))

\* Mutation: the attributes stay in the order of the iteration.
SortBy_Unsorted(v) == v

\* attributes.sort_by(|x, y| x.0.cmp(&y.0)), a stable sort.
RECURSIVE SortBy(_)
SortBy(v) ==
    IF v = <<>> THEN <<>>
    ELSE Insert(SortBy(SubSeq(v, 1, Len(v) - 1)), v[Len(v)])

\* impl From<Credentials> for SortedCredentials, the HashMap iterated in the
\* order iter.
SortedCredentialsFrom(credentials, iter) ==
    [purpose |-> credentials.purpose,
     name |-> credentials.name,
     attributes |-> SortBy(iter)]

CredentialRenderType == {"Json", "Html", "HtmlPage"}

\* The orders in which the attributes of each of the credentials can be
\* iterated.
IntoIters(credentials) ==
    {iters \in [1..Len(credentials) ->
                   UNION {IntoIter(credentials[i].attributes) : i \in 1..Len(credentials)}] :
        \A i \in 1..Len(credentials) : iters[i] \in IntoIter(credentials[i].attributes)}

\* serde_json::to_string(&credentials): each credential with its attributes
\* as a map, written in the order of the iteration.
ToJson(credentials, iters) ==
    [i \in 1..Len(credentials) |->
        [purpose |-> credentials[i].purpose,
         name |-> credentials[i].name,
         attributes |-> iters[i]]]

\* Mutation: the credentials are put into the context as they are.
ContextCredentials_Unsorted(credentials, iters) == ToJson(credentials, iters)

\* credentials.into_iter().map(SortedCredentials::from).collect()
ContextCredentials(credentials, iters) ==
    [i \in 1..Len(credentials) |-> SortedCredentialsFrom(credentials[i], iters[i])]

\* render_credentials: what is handed to serde_json or to the template.
RenderCredentials(credentials, render_type, iters) ==
    IF render_type = "Json"
    THEN [render_type |-> render_type, engine |-> "serde_json", template |-> "",
          shape |-> "map", credentials |-> ToJson(credentials, iters)]
    ELSE [render_type |-> render_type, engine |-> "tera",
          template |-> IF render_type = "HtmlPage" THEN "base.html" ELSE "credentials.html",
          shape |-> "list", credentials |-> ContextCredentials(credentials, iters)]

(***************************************************************************)
(* A list of guests' results is collected and rendered.                    *)
(***************************************************************************)
MaxGuests == 2

\* Guests' results as get_credentials_for_host or another caller builds them.
GuestAuthResults ==
    [name : {"n1", "n2"}, purpose : {"p1"}, auth_result : Blobs \cup {NULL}]
        \cup [name : {NULL}, purpose : {NULL}, auth_result : {"v1", "v3", "v4", NULL}]

GuestLists == UNION {[1..n -> GuestAuthResults] : n \in 0..MaxGuests}

CredInit ==
    /\ store = {}
    /\ now = 0
    /\ pc = [p \in Procs |-> "idle"]
    /\ call = [p \in Procs |-> NoCall]
    /\ ret = [p \in Procs |-> NoRet]
    /\ sweep = "idle"
    /\ live = [p \in Procs |-> FALSE]
    /\ host = NoHost
    /\ hist = NoHist
    /\ auth = NoAuth
    /\ sig = NoSig
    /\ resp = NoResp
    /\ tok = NoTok
    /\ \E guest_auth_results \in GuestLists :
           cred = [NoCred EXCEPT !.pc = "called", !.guest_auth_results = guest_auth_results]

\* collect_credentials
Collect ==
    /\ cred.pc = "called"
    /\ LET collected == CollectCredentials(cred.guest_auth_results, Config)
       IN cred' = [cred EXCEPT !.pc = "collected", !.kind = collected.kind,
                               !.credentials = collected.credentials]
    /\ UNCHANGED <<store, now, pc, call, ret, sweep, live, host, hist, rest>>

\* render_credentials of the collected credentials; the order in which each
\* HashMap was iterated is kept.
Render ==
    /\ cred.pc = "collected" /\ cred.kind = "Ok"
    /\ \E render_type \in CredentialRenderType, iters \in IntoIters(cred.credentials) :
           cred' = [cred EXCEPT !.pc = "rendered", !.iters = iters,
                        !.rendered = RenderCredentials(cred.credentials, render_type, iters)]
    /\ UNCHANGED <<store, now, pc, call, ret, sweep, live, host, hist, rest>>

CredNext ==
    \/ Collect
    \/ Render

CredSpec == CredInit /\ [][CredNext]_vars

(***************************************************************************)
(* Vocabulary of the credentials' properties.                              *)
(***************************************************************************)
Collected == cred.pc \in {"collected", "rendered"}
Rendered == cred.pc = "rendered"

\* The blob decrypts with the decrypter's key and its signature is the
\* validator's, whatever its expiry.
Verifies(blob) ==
    LET b == Open(blob)
    IN /\ b.jwe /\ b.intact
       /\ b.encrypted_for = Config.decrypter /\ b.signed_with = Config.validator

\* The guest has a result that verifies and carries attributes.
Carries(guest) ==
    /\ guest.auth_result # NULL
    /\ Verifies(guest.auth_result)
    /\ Open(guest.auth_result).some

\* No guest has a result that fails.
NoneFails(guests) ==
    \A i \in 1..Len(guests) :
        guests[i].auth_result = NULL \/ Verifies(guests[i].auth_result)

\* Key a comes before key b in the lexicographic order of their bytes.
LexLess(a, b) ==
    \E n \in 0..Len(a) :
        /\ n <= Len(b)
        /\ SubSeq(a, 1, n) = SubSeq(b, 1, n)
        /\ \/ n = Len(a) /\ n < Len(b)
           \/ n < Len(a) /\ n < Len(b) /\ a[n + 1] < b[n + 1]

\* The pairs are in ascending order of their keys.
KeySorted(attributes) ==
    \A k, l \in 1..Len(attributes) :
        k < l => LexLess(attributes[k][1], attributes[l][1])

\* The sequence holds the pairs of the map, each once.
SamePairs(sequence, attributes) ==
    /\ Len(sequence) = Cardinality(DOMAIN attributes)
    /\ {sequence[k] : k \in 1..Len(sequence)} = Pairs(attributes)

(***************************************************************************)
(* C16: collect_credentials returns, in the order of its input, one        *)
(* Credentials record for each guest whose auth_result is present and      *)
(* decrypts and verifies to a payload with attributes, with that guest's   *)
(* name and purpose and those attributes; a guest without auth_result or   *)
(* without attributes in the payload gives no record and no error.         *)
(***************************************************************************)
C16_Collects ==
    (Collected /\ NoneFails(cred.guest_auth_results)) =>
        LET carrying == SelectSeq(cred.guest_auth_results, Carries)
        IN /\ cred.kind = "Ok"
           /\ Len(cred.credentials) = Len(carrying)
           /\ \A i \in 1..Len(carrying) :
                  cred.credentials[i] =
                      [name |-> carrying[i].name,
                       purpose |-> carrying[i].purpose,
                       attributes |-> Open(carrying[i].auth_result).attributes]

\* A guest whose payload has no attributes, followed by one with attributes.
C16_Witness ==
    /\ Collected /\ cred.kind = "Ok"
    /\ Len(cred.guest_auth_results) = MaxGuests
    /\ cred.guest_auth_results[1].auth_result = "v6"
    /\ Carries(cred.guest_auth_results[MaxGuests])
    /\ Len(cred.credentials) = MaxGuests - 1

(***************************************************************************)
(* C17: when the auth_result of any guest of the list fails decryption or  *)
(* the check of its signature, collect_credentials returns the error and   *)
(* no list: the failure is not swallowed, and the guest is not taken for   *)
(* one without attributes.                                                 *)
(***************************************************************************)
C17_Propagates ==
    (Collected /\ ~NoneFails(cred.guest_auth_results)) =>
        /\ cred.kind = "Jwe"
        /\ cred.credentials = <<>>

\* A guest with attributes, followed by one whose result is signed with a
\* foreign key.
C17_Witness ==
    /\ Collected /\ cred.kind = "Jwe"
    /\ Len(cred.guest_auth_results) = MaxGuests
    /\ Carries(cred.guest_auth_results[1])
    /\ cred.guest_auth_results[MaxGuests].auth_result = "v7"

(***************************************************************************)
(* C18: collect_credentials accepts a bundle whose nominal expiry has      *)
(* passed when its signature and ciphertext are intact, and rejects a      *)
(* bundle with a tampered signature, expired or not.                       *)
(***************************************************************************)
C18_ExpiryLenient ==
    Collected =>
        \A i \in 1..Len(cred.guest_auth_results) :
            LET guest == cred.guest_auth_results[i]
                b == Open(guest.auth_result)
            IN guest.auth_result # NULL =>
                 /\ (b.expired /\ Verifies(guest.auth_result)
                        /\ NoneFails(cred.guest_auth_results)) =>
                        /\ cred.kind = "Ok"
                        /\ b.some =>
                              \E j \in 1..Len(cred.credentials) :
                                  /\ cred.credentials[j].name = guest.name
                                  /\ cred.credentials[j].attributes = b.attributes
                 /\ (b.jwe /\ ~b.intact) => cred.kind = "Jwe"

\* An expired bundle has given its attributes.
C18_Witness ==
    /\ Collected /\ cred.kind = "Ok"
    /\ Len(cred.credentials) = MaxGuests
    /\ \E i \in 1..MaxGuests :
          /\ Open(cred.guest_auth_results[i].auth_result).expired
          /\ cred.credentials[i].attributes = Attributes_v3

(***************************************************************************)
(* C19: SortedCredentials::from(c) keeps the name and the purpose of c and *)
(* holds exactly the attribute pairs of c, none added, dropped or altered, *)
(* in ascending lexicographic order of their keys.                         *)
(***************************************************************************)
C19_SortedFrom ==
    (Rendered /\ cred.rendered.engine = "tera") =>
        /\ Len(cred.rendered.credentials) = Len(cred.credentials)
        /\ \A i \in 1..Len(cred.credentials) :
               LET c == cred.credentials[i]
                   sorted == cred.rendered.credentials[i]
               IN /\ sorted.name = c.name
                  /\ sorted.purpose = c.purpose
                  /\ SamePairs(sorted.attributes, c.attributes)
                  /\ KeySorted(sorted.attributes)

\* A credential of three attributes that were iterated in another order
\* than the sorted one.
C19_Witness ==
    /\ Rendered /\ cred.rendered.engine = "tera"
    /\ \E i \in 1..Len(cred.credentials) :
          /\ cred.credentials[i].attributes = Attributes_v3
          /\ cred.iters[i] # cred.rendered.credentials[i].attributes
          /\ cred.rendered.credentials[i].attributes[1][1] = Key_Zip

(***************************************************************************)
(* C20: for every render type, Json, Html and HtmlPage, render_credentials *)
(* hands to the rendering step only the key-sorted form of each            *)
(* credential; no render path serializes the unsorted attributes.          *)
(***************************************************************************)
C20_AllSorted ==
    Rendered =>
        /\ cred.rendered.shape = "list"
        /\ \A i \in 1..Len(cred.rendered.credentials) :
               KeySorted(cred.rendered.credentials[i].attributes)

(***************************************************************************)
(* C20, amended: for the render types Html and HtmlPage the template       *)
(* receives only the key-sorted form of each credential; for Json the      *)
(* credentials are serialized as collected, each attribute map as a map    *)
(* in the order of its iteration.                                          *)
(***************************************************************************)
C20_HtmlSorted ==
    Rendered =>
        /\ cred.rendered.render_type \in {"Html", "HtmlPage"} =>
              /\ cred.rendered.engine = "tera" /\ cred.rendered.shape = "list"
              /\ \A i \in 1..Len(cred.rendered.credentials) :
                     KeySorted(cred.rendered.credentials[i].attributes)
        /\ cred.rendered.render_type = "Json" =>
              /\ cred.rendered.engine = "serde_json" /\ cred.rendered.shape = "map"
              /\ \A i \in 1..Len(cred.rendered.credentials) :
                     cred.rendered.credentials[i].attributes = cred.iters[i]

\* A Json rendering whose attributes are not in the order of their keys.
C20_Witness ==
    /\ Rendered /\ cred.rendered.render_type = "Json"
    /\ \E i \in 1..Len(cred.rendered.credentials) :
          ~KeySorted(cred.rendered.credentials[i].attributes)

(***************************************************************************)
(* The login flow (src/auth.rs): a browser with its cookies sends          *)
(* requests to /auth/login, /auth/redirect and /auth/logout.               *)
(***************************************************************************)
\* The variables of the session store and of the credentials.
session == <<store, now, pc, call, ret, sweep, live, host, hist, cred>>

\* config.auth_provider(): Some(Google), Some(Microsoft) or None.
AuthProvider == {"Google", "Microsoft"}

\* The values of a field of the provider's answer: a text, or no text.
Str(text) == [type |-> "string", text |-> text]
Num == [type |-> "number", text |-> "7"]

\* The provider's answers to the profile request: none (the transport
\* failed), a body that is no JSON object, or a JSON object.
ReplyFailed == [sent |-> FALSE, json |-> FALSE, fields |-> <<>>]
ReplyGarbage == [sent |-> TRUE, json |-> FALSE, fields |-> <<>>]
ReplyJson(fields) == [sent |-> TRUE, json |-> TRUE, fields |-> fields]
Replies ==
    {ReplyFailed, ReplyGarbage}
        \cup {ReplyJson(f) : f \in UNION {[S -> {Str(""), Str("id"), Num}] :
                                              S \in SUBSET {"sub", "displayName"}}}

\* The results of check_token; asked tells whether the provider's endpoint
\* was requested.
CheckOk(value) == [kind |-> "Ok", value |-> value, text |-> "", asked |-> TRUE]
CheckErr(e, text) == [kind |-> e, value |-> FALSE, text |-> text, asked |-> e # "Forbidden"]

\* GoogleUserInfo.sub, MicrosoftUserInfo.display_name (renamed displayName)
UserInfoField(provider) == IF provider = "Google" THEN "sub" ELSE "displayName"

\* .json(): deserialize the answer; #[serde(default)] gives the empty
\* string for a field that is absent.
UserInfo(reply, field) ==
    IF ~reply.json THEN CheckErr("Reqwest", "")
    ELSE IF field \notin DOMAIN reply.fields THEN [CheckOk(FALSE) EXCEPT !.text = ""]
    ELSE IF reply.fields[field].type # "string" THEN CheckErr("Reqwest", "")
    ELSE [CheckOk(FALSE) EXCEPT !.text = reply.fields[field].text]

\* Mutation: any answer that parses is accepted.
Identified_Any(text) == TRUE

\* !user_info.sub.is_empty(), !user_info.display_name.is_empty()
Identified(text) == text # ""

\* check_token_google, check_token_microsoft
CheckTokenProvider(provider, reply) ==
    IF ~reply.sent THEN CheckErr("Reqwest", "")
    ELSE LET user_info == UserInfo(reply, UserInfoField(provider))
         IN IF user_info.kind # "Ok" THEN user_info
            ELSE CheckOk(Identified(user_info.text))

\* Mutation: with no provider configured the token is checked with Google.
CheckToken_DefaultGoogle(provider, reply) ==
    CheckTokenProvider(IF provider \in AuthProvider THEN provider ELSE "Google", reply)

\* check_token
CheckToken(provider, reply) ==
    IF provider \in AuthProvider THEN CheckTokenProvider(provider, reply)
    ELSE CheckErr("Forbidden", "No auth provider configured")

\* Cookie::build("token", ..).http_only(true).secure(true).same_site(SameSite::None)
TokenCookie(access_token) ==
    [value |-> access_token, http_only |-> TRUE, secure |-> TRUE, same_site |-> "None"]

\* Mutation: the cookie is set whatever check_token returned.
Admits_All(checked) == TRUE

\* if check_token(..).await? { .. }
Admits(checked) == checked.value

\* redirect_generic, with the provider's answer to check_token's request.
RedirectGeneric(a, access_token, reply) ==
    LET checked == CheckToken(a.provider, reply)
        called == [a EXCEPT !.request = [route |-> "redirect", return_url |-> NULL,
                                         bearer |-> access_token],
                            !.reply = IF checked.asked THEN reply ELSE ReplyFailed,
                            !.upstream = checked.asked,
                            !.checked = checked,
                            !.verified = IF checked.kind = "Ok" /\ checked.value
                                         THEN @ \cup {access_token} ELSE @]
    IN IF checked.kind # "Ok"
       THEN [called EXCEPT !.response = [kind |-> checked.kind, text |-> checked.text]]
       ELSE IF Admits(checked)
            THEN [called EXCEPT !.jar.token = TokenCookie(access_token),
                                !.response = [kind |-> "Ok", text |-> "login_successful"]]
            ELSE [called EXCEPT !.response =
                      [kind |-> "Forbidden", text |-> "insufficient_permissions"]]

\* Mutation: the cookie stays.
RemovePrivate_Keep(jar, name) == jar

\* cookies.remove_private(Cookie::named(name))
RemovePrivate(jar, name) == [jar EXCEPT ![name] = NoCookie]

\* logout_generic
LogoutGeneric(a) ==
    [a EXCEPT !.request = [route |-> "logout", return_url |-> NULL, bearer |-> NULL],
              !.reply = ReplyFailed, !.upstream = FALSE, !.checked = NoAuth.checked,
              !.jar = RemovePrivate(a.jar, "token"),
              !.response = [kind |-> "Ok", text |-> "logout_successful"]]

\* login_google, login_microsoft: the route takes no parameter, whatever
\* the caller adds to the request; oauth2.get_redirect sends the browser to
\* the provider.
LoginProvider(a, return_url) ==
    [a EXCEPT !.request = [route |-> "login", return_url |-> return_url, bearer |-> NULL],
              !.reply = ReplyFailed, !.upstream = FALSE, !.checked = NoAuth.checked,
              !.response = [kind |-> "Redirect", text |-> "provider"]]

AuthInit ==
    /\ store = {}
    /\ now = 0
    /\ pc = [p \in Procs |-> "idle"]
    /\ call = [p \in Procs |-> NoCall]
    /\ ret = [p \in Procs |-> NoRet]
    /\ sweep = "idle"
    /\ live = [p \in Procs |-> FALSE]
    /\ host = NoHost
    /\ hist = NoHist
    /\ cred = NoCred
    /\ \E provider \in AuthProvider \cup {"None"} : auth = [NoAuth EXCEPT !.provider = provider]
    /\ sig = NoSig
    /\ resp = NoResp
    /\ tok = NoTok

\* GET /auth/login
Login ==
    /\ \E return_url \in {NULL, "/room"} : auth' = LoginProvider(auth, return_url)
    /\ UNCHANGED <<session, sig, resp, tok>>

\* GET /auth/redirect: the provider's callback, with the access token of the
\* exchange.
Callback ==
    /\ \E access_token \in {"t1", "t2"}, reply \in Replies :
           auth' = RedirectGeneric(auth, access_token, reply)
    /\ UNCHANGED <<session, sig, resp, tok>>

\* POST /auth/logout
Logout ==
    /\ auth' = LogoutGeneric(auth)
    /\ UNCHANGED <<session, sig, resp, tok>>

AuthNext ==
    \/ Login
    \/ Callback
    \/ Logout

AuthSpec == AuthInit /\ [][AuthNext]_vars

(***************************************************************************)
(* Claims about the login flow, under AuthSpec.                            *)
(***************************************************************************)
\* A request to the given route has just been answered.
Answered(route) == auth.request.route = route
\* This step answers a request to the given route.
Answers(route) == auth' # auth /\ auth'.request.route = route

\* The identity field of the configured provider in the provider's answer.
IdentityField == IF auth.provider = "Google" THEN "sub" ELSE "displayName"
Parsed == auth.reply.sent /\ auth.reply.json
Absent == IdentityField \notin DOMAIN auth.reply.fields
IsText == ~Absent /\ auth.reply.fields[IdentityField].type = "string"
Empty == IsText /\ auth.reply.fields[IdentityField].text = ""

\* C21: check_token returns true only if the provider's answer carries a
\* non-empty identity field (sub for Google, displayName for Microsoft),
\* returns false when that field is empty or absent, and returns an error,
\* never false, when the request fails or the answer does not parse.
C21_CheckToken ==
    Answered("redirect") /\ auth.provider \in AuthProvider =>
        /\ auth.checked.kind = "Ok" /\ auth.checked.value
               => Parsed /\ IsText /\ ~Empty
        /\ Parsed /\ (Absent \/ Empty) => auth.checked = CheckOk(FALSE)
        /\ ~Parsed \/ (~Absent /\ ~IsText) => auth.checked.kind = "Reqwest"

\* Microsoft is asked and answers with a sub but no displayName: rejected.
C21_Witness ==
    /\ Answered("redirect")
    /\ auth.provider = "Microsoft"
    /\ Parsed
    /\ DOMAIN auth.reply.fields = {"sub"}
    /\ auth.reply.fields["sub"] = Str("id")
    /\ auth.checked = CheckOk(FALSE)

\* C22: the token cookie is present only after a callback in which
\* check_token returned true for that bearer token, and it is httpOnly and
\* secure; when check_token returns false the callback sets no cookie and
\* answers Forbidden "insufficient permissions", not a redirect; when
\* check_token fails the callback sets no cookie and answers with the error.
C22_Cookie ==
    /\ [](auth.jar.token # NoCookie =>
              /\ auth.jar.token.value \in auth.verified
              /\ auth.jar.token.http_only
              /\ auth.jar.token.secure)
    /\ [][Answers("redirect") =>
              /\ auth'.checked = CheckOk(TRUE) =>
                     /\ auth'.jar.token.value = auth'.request.bearer
                     /\ auth'.response.kind = "Ok"
              /\ auth'.checked = CheckOk(FALSE) =>
                     /\ auth'.jar = auth.jar
                     /\ auth'.response =
                            [kind |-> "Forbidden", text |-> "insufficient_permissions"]
              /\ auth'.checked.kind # "Ok" =>
                     /\ auth'.jar = auth.jar
                     /\ auth'.response.kind = auth'.checked.kind]_vars

\* A callback with t2 is rejected after one with t1 succeeded.
C22_Witness ==
    /\ Answered("redirect")
    /\ auth.request.bearer = "t2"
    /\ auth.checked = CheckOk(FALSE)
    /\ auth.response.kind = "Forbidden"
    /\ auth.jar.token.value = "t1"
    /\ auth.verified = {"t1"}

\* C23: on login start the return URL of the caller is stored in the
\* redirect cookie before the browser is sent to the provider.
C23_RedirectStored ==
    Answered("login") /\ auth.request.return_url # NULL =>
        auth.jar.redirect.value = auth.request.return_url

\* C24: logout removes the token cookie from any state, also when none is
\* set, answers with success and calls no provider; no token cookie appears
\* again until a callback succeeds; logging out twice equals logging out
\* once.
C24_Logout ==
    /\ [](Answered("logout") =>
              /\ auth.jar.token = NoCookie
              /\ auth.response = [kind |-> "Ok", text |-> "logout_successful"]
              /\ ~auth.upstream)
    /\ [][auth.jar.token = NoCookie /\ auth'.jar.token # NoCookie =>
              /\ auth'.request.route = "redirect"
              /\ auth'.checked = CheckOk(TRUE)]_vars
    /\ [](LogoutGeneric(LogoutGeneric(auth)) = LogoutGeneric(auth))

\* Logged out after a login that succeeded.
C24_Witness ==
    /\ Answered("logout")
    /\ auth.verified # {}
    /\ auth.jar.token = NoCookie

(***************************************************************************)
(* Signing of outbound tokens (src/jwt.rs): the function reads the system  *)
(* clock once for the issued-at claim and once more for the expires-at     *)
(* claim; the clock, in seconds, runs between the statements.              *)
(***************************************************************************)
MaxClock == 3

\* SystemTime::now() + Duration::from_secs(5 * 60)
ExpiresAt(time) == time + 5 * 60

\* josekit::jwt::encode_with_signer(&sig_payload, &sig_header, signer)?
EncodeWithSigner(s) ==
    IF s.signer = "key"
    THEN [kind |-> "Ok", iat |-> s.iat, exp |-> s.exp, claims |-> s.params]
    ELSE [kind |-> "Jwt", iat |-> -1, exp |-> -1, claims |-> NULL]

\* The function is called: header and payload are built from the arguments.
SignCall ==
    /\ sig.pc \in {"idle", "done"}
    /\ \E fn \in {"sign_start_auth_request", "sign_auth_select_params"},
          params \in Payloads, signer \in {"key", "bad_key"} :
           sig' = [NoSig EXCEPT !.pc = "set_issued_at", !.fn = fn, !.params = params,
                                !.signer = signer, !.time = sig.time]
    /\ UNCHANGED <<session, auth, resp, tok>>

\* sig_payload.set_issued_at(&SystemTime::now())
SetIssuedAt ==
    /\ sig.pc = "set_issued_at"
    /\ sig' = [sig EXCEPT !.pc = "set_expires_at", !.iat = sig.time]
    /\ UNCHANGED <<session, auth, resp, tok>>

\* sig_payload.set_expires_at(&(SystemTime::now() + Duration::from_secs(5 * 60)))
SetExpiresAt ==
    /\ sig.pc = "set_expires_at"
    /\ sig' = [sig EXCEPT !.pc = "encode", !.exp = ExpiresAt(sig.time)]
    /\ UNCHANGED <<session, auth, resp, tok>>

\* encode_with_signer and return
Encode ==
    /\ sig.pc = "encode"
    /\ sig' = [sig EXCEPT !.pc = "done", !.result = EncodeWithSigner(sig)]
    /\ UNCHANGED <<session, auth, resp, tok>>

\* A second passes on the system clock.
Second ==
    /\ sig.time < MaxClock
    /\ sig' = [sig EXCEPT !.time = @ + 1]
    /\ UNCHANGED <<session, auth, resp, tok>>

SignNext ==
    \/ SignCall
    \/ SetIssuedAt
    \/ SetExpiresAt
    \/ Encode
    \/ Second

SignSpec == Init /\ [][SignNext]_vars

Signed == sig.pc = "done" /\ sig.result.kind = "Ok"

\* C25: every token issued by sign_auth_select_params and by
\* sign_start_auth_request carries an issued-at claim and an expires-at
\* claim exactly 300 seconds after it, whatever the time that passes between
\* the two clock reads.
C25_FiveMinutes ==
    Signed => sig.result.iat >= 0 /\ sig.result.exp = sig.result.iat + 300

(***************************************************************************)
(* Requests that are cancelled or fail.  Each operation awaits db.run once *)
(* (src/session.rs): a request dropped at that point has either not run    *)
(* its statement or has run all of it, and a statement the database        *)
(* rejects changes nothing.                                                *)
(***************************************************************************)
\* The table after the statement of call c has executed at time t.
Effect(rows, c, t) ==
    CASE c.op = "persist" -> PersistRows(rows, c.session, t)
      [] c.op = "register" -> RegisterRows(rows, c.attr_id, c.auth_result, t)
      [] c.op = "find" -> FindRows(rows, c.room_id, t)
      [] OTHER -> rows

\* The request is dropped while it awaits db.run: before the statement ran,
\* or after it ran and before its result was taken.
Cancel(p) ==
    /\ pc[p] = "called"
    /\ \E ran \in BOOLEAN : store' = IF ran THEN Effect(store, call[p], now) ELSE store
    /\ pc' = [pc EXCEPT ![p] = "cancelled"]
    /\ live' = [live EXCEPT ![p] = FALSE]
    /\ UNCHANGED <<now, call, ret, sweep, others>>

\* The database fails the statement: .await? returns the error.
Fail(p) ==
    /\ pc[p] = "called"
    /\ store' = store
    /\ Finish(p, Err("Postgres"))
    /\ live' = [live EXCEPT ![p] = FALSE]

\* The sweep is dropped before its DELETE ran.
CancelClean ==
    /\ sweep = "called"
    /\ sweep' = "idle"
    /\ UNCHANGED <<store, now, pc, call, ret, live, others>>

\* The requests are those of one caller, one after the other; the sweep runs
\* beside them.
Caller == "p1"

CancelNext ==
    \/ CallPersist(Caller)
    \/ CallRegister(Caller)
    \/ CallFind(Caller)
    \/ Persist(Caller)
    \/ RegisterAuthResult(Caller)
    \/ FindByRoomId(Caller)
    \/ Cancel(Caller)
    \/ Fail(Caller)
    \/ CallClean
    \/ CleanDb
    \/ CancelClean
    \/ Tick

CancelSpec == Init /\ [][CancelNext]_vars

\* The row of attr_id a in a table.
RowOf(rows, a) == CHOOSE x \in rows : x.attr_id = a
Keys(rows) == {x.attr_id : x \in rows}
\* The rows whose last_activity a step has changed and nothing else.
Refreshed ==
    {a \in Keys(store) \cap Keys(store') :
        /\ RowOf(store', a) # RowOf(store, a)
        /\ RowOf(store', a) = [RowOf(store, a) EXCEPT
                                   !.last_activity = RowOf(store', a).last_activity]}
\* The table after one whole statement on the table of this state.
WholeStatements ==
    {PersistRows(store, s, now) : s \in Sessions}
        \cup {RegisterRows(store, a, v, now) : a \in AttrIds, v \in Payloads}
        \cup {FindRows(store, r, now) : r \in RoomIds}
        \cup {CleanRows(store, now)}
Dropped(p) == pc[p] = "called" /\ pc'[p] = "cancelled"
Failed(p) == pc[p] = "called" /\ pc'[p] = "done" /\ ret'[p] = Err("Postgres")

\* C26: every step leaves the table unchanged or with the full effect of one
\* statement; a request that is cancelled leaves the table unchanged or with
\* the full effect of its own statement, and one the database fails leaves
\* it unchanged; no step sets a row's auth_result without setting its
\* last_activity to the time of the step, and no step refreshes a part of a
\* room's rows only.
C26_WholeStatement ==
    [][/\ store' = store \/ store' \in WholeStatements
       /\ \A p \in Procs :
              /\ Dropped(p) => store' \in {store, Effect(store, call[p], now)}
              /\ Failed(p) => store' = store
       /\ \A a \in Keys(store) \cap Keys(store') :
              RowOf(store, a).auth_result = NULL /\ RowOf(store', a).auth_result # NULL
                  => RowOf(store', a).last_activity = now
       /\ \A a \in Refreshed : \A y \in store' :
              y.room_id = RowOf(store, a).room_id => y.last_activity = now]_vars

\* A room read was cancelled after its statement had run: both rows of room
\* r1, persisted earlier, carry the time of the read.
C26_Witness ==
    \E p \in Procs :
        /\ pc[p] = "cancelled"
        /\ call[p].op = "find"
        /\ call[p].room_id = "r1"
        /\ now > 0
        /\ Keys({x \in store : x.room_id = "r1"}) = {"a1", "a2"}
        /\ \A x \in store : x.room_id = "r1" => x.last_activity = now

(***************************************************************************)
(* What is written out: an Error answered to a request (src/error.rs) and  *)
(* a configuration formatted for a log (src/config.rs).  Texts are         *)
(* sequences of their parts.                                               *)
(***************************************************************************)
\* The variants of Error, each with the text of what it wraps.
Errors ==
    {[variant |-> "NotFound", source |-> <<>>]}
        \cup {[variant |-> v, source |-> <<m>>] :
                 v \in {"BadRequest", "Jwe", "Postgres", "Reqwest", "Json", "Parse", "Template"},
                 m \in {"m1", "m2"}}

\* format!("{}", e) for the JwtError in Error::Jwe   (jwt.rs:18-19)
DisplayJwtError(source) == <<"ID Contact JWE error: ">> \o source

\* The json! body of the match arms.
ErrorBody(e) ==
    CASE e.variant = "NotFound" -> [error |-> "NotFound", detail |-> <<>>]
      [] e.variant = "BadRequest" -> [error |-> "BadRequest", detail |-> e.source]
      [] e.variant = "Jwe" -> [error |-> "BadRequest", detail |-> DisplayJwtError(e.source)]
      [] e.variant = "Template" ->
             [error |-> "TemplateError", detail |-> e.source]

\* Mutation: every error is answered as a bad request.
ErrorStatus_BadRequest(e) == 400

\* The Status of the match arms.
ErrorStatus(e) ==
    CASE e.variant = "NotFound" -> 404
      [] e.variant = "BadRequest" -> 400
      [] e.variant = "Jwe" -> 400
      [] e.variant = "Template" -> 500

\* rocket::response::Debug: the value is logged and the answer is a bare
\* 500 Internal Server Error.
DebugRespondTo(e) ==
    [responded |-> TRUE, json |-> FALSE, status |-> 500, error |-> "", detail |-> <<>>]

\* impl Responder for Error: respond_to
RespondTo(e) ==
    IF e.variant \in {"NotFound", "BadRequest", "Jwe", "Template"}
    THEN [responded |-> TRUE, json |-> TRUE, status |-> ErrorStatus(e),
          error |-> ErrorBody(e).error, detail |-> ErrorBody(e).detail]
    ELSE DebugRespondTo(e)

\* The secrets a configuration file may hold.
Secrets == {"secret1", "secret2"}
\* RawAuthDuringCommConfig, with core_url for its fields that are no secret.
RawConfigs ==
    [core_url : {"u1", "u2"}, guest_signature_secret : Secrets,
     host_signature_secret : Secrets]

\* Mutation: the Debug a derive would give, TokenSecret("..").
DebugTokenSecret_Derived(secret) == <<"TokenSecret", "(", secret, ")">>

\* impl Debug for TokenSecret: f.debug_struct("TokenSecret").finish()
DebugTokenSecret(secret) == <<"TokenSecret">>

\* #[derive(Debug)] of RawAuthDuringCommConfig
DebugRawConfig(c) ==
    <<"RawAuthDuringCommConfig", " { ", "core_url", ": ">> \o <<"\"", c.core_url, "\"">>
        \o <<", ", "guest_signature_secret", ": ">>
        \o DebugTokenSecret(c.guest_signature_secret)
        \o <<", ", "host_signature_secret", ": ">>
        \o DebugTokenSecret(c.host_signature_secret) \o <<" }">>

\* A handler returns Err(e) and rocket answers with the Error.
Respond ==
    /\ \E e \in Errors : resp' = [resp EXCEPT !.error = e, !.response = RespondTo(e)]
    /\ UNCHANGED <<session, auth, sig, tok>>

\* Two configurations are formatted with {:?}.
DebugFmt ==
    /\ \E c1 \in RawConfigs, c2 \in RawConfigs :
           resp' = [resp EXCEPT !.configs = <<c1, c2>>,
                                !.logged = <<DebugRawConfig(c1), DebugRawConfig(c2)>>]
    /\ UNCHANGED <<session, auth, sig, tok>>

RespondNext ==
    \/ Respond
    \/ DebugFmt

RespondSpec == Init /\ [][RespondNext]_vars

Responded == resp.response.responded
Logged == resp.logged # <<>>
Range(q) == {q[i] : i \in DOMAIN q}

\* C27 as stated: every Error variant is answered with a structured JSON
\* response; none falls back to an unstructured response.
C27_AllStructured == Responded => resp.response.json

\* C27, amended: NotFound, BadRequest, Jwe and Template are answered with a
\* JSON body that names the error kind, with status 404, 400, 400 and 500 and
\* the detail text where there is one; Postgres, Reqwest, Json and Parse are
\* answered by the fallback, a 500 without a structured body.
C27_Structured ==
    Responded =>
        LET e == resp.error
            r == resp.response
        IN /\ e.variant = "NotFound" =>
                  r.json /\ r.status = 404 /\ r.error = "NotFound" /\ r.detail = <<>>
           /\ e.variant = "BadRequest" =>
                  r.json /\ r.status = 400 /\ r.error = "BadRequest" /\ r.detail = e.source
           /\ e.variant = "Jwe" =>
                  /\ r.json /\ r.status = 400 /\ r.error = "BadRequest"
                  /\ Range(e.source) \subseteq Range(r.detail)
           /\ e.variant = "Template" =>
                  /\ r.json /\ r.status = 500 /\ r.error = "TemplateError"
                  /\ r.detail = e.source
           /\ e.variant \in {"Postgres", "Reqwest", "Json", "Parse"} =>
                  ~r.json /\ r.status = 500 /\ r.error = "" /\ r.detail = <<>>

\* A storage error has been answered by the fallback.
C27_Witness ==
    /\ Responded
    /\ resp.error.variant = "Postgres"
    /\ ~resp.response.json
    /\ resp.response.status = 500

\* C28: the Debug output of a TokenSecret is the text TokenSecret for every
\* secret; two configurations that differ only in the guest or host
\* signature secret give the same Debug output, which holds no secret.
C28_LogHiding ==
    /\ \A s \in Secrets : DebugTokenSecret(s) = <<"TokenSecret">>
    /\ Logged =>
           /\ resp.configs[1].core_url = resp.configs[2].core_url
                  => resp.logged[1] = resp.logged[2]
           /\ \A i \in {1, 2} : Range(resp.logged[i]) \cap Secrets = {}

\* Two configurations with different guest and host secrets were formatted.
C28_Witness ==
    /\ Logged
    /\ resp.configs[1].core_url = resp.configs[2].core_url
    /\ resp.configs[1].guest_signature_secret # resp.configs[2].guest_signature_secret
    /\ resp.configs[1].host_signature_secret # resp.configs[2].host_signature_secret
    /\ resp.logged[1] = resp.logged[2]

(***************************************************************************)
(* The lifetime of a row: the store, statement by statement, with the      *)
(* results that were ever registered for each attr_id.                     *)
(***************************************************************************)
\* Session::register_auth_result
LifeRegister ==
    \E a \in AttrIds, v \in Payloads :
        LET registered == RegisterResult(RegisterCount(store, a)) = Ok
        IN /\ store' = RegisterRows(store, a, v, now)
           /\ hist' = [hist EXCEPT
                          !.touch = Touched(store, store',
                                            IF registered THEN {a} ELSE {}, now),
                          !.results[a] = IF registered THEN @ \cup {v} ELSE @]
           /\ UNCHANGED <<now, pc, call, ret, sweep, live, host, cred, rest>>

LifeNext ==
    \/ StorePersist
    \/ LifeRegister
    \/ CallClean
    \/ StoreCleanDb
    \/ Tick

LifeSpec == Init /\ [][LifeNext]_vars

\* C29: every row inserted by persist has a null auth_result, so in every
\* state a result that is stored was written by a register_auth_result that
\* succeeded for the row's attr_id.
C29_RegisteredOnly ==
    \A x \in store : x.auth_result # NULL => x.auth_result \in hist.results[x.attr_id]

\* C30: after clean_db has deleted a session, persist of a new session with
\* the same attr_id succeeds, and a register_auth_result for that attr_id
\* succeeds again, with every payload, also one that differs from those
\* registered before; a result that is registered stays as long as its row
\* is stored.
C30_Lifetime ==
    /\ [](\A s \in Sessions :
              s.attr_id \in hist.reaped /\ ~HasRow(s.attr_id) =>
                  /\ PersistResult(store, s, now) = Ok
                  /\ InsertRow(s, now) \in PersistRows(store, s, now))
    /\ [](\A a \in AttrIds, v \in Payloads :
              hist.results[a] # {} /\ HasRow(a) /\ RowOf(store, a).auth_result = NULL =>
                  /\ RegisterResult(RegisterCount(store, a)) = Ok
                  /\ RowOf(RegisterRows(store, a, v, now), a).auth_result = v)
    /\ [][\A a \in Keys(store) \cap Keys(store') :
              RowOf(store, a).auth_result # NULL =>
                  RowOf(store', a).auth_result = RowOf(store, a).auth_result]_vars

\* The session of a1 was registered with one payload, deleted by the sweep,
\* persisted again and registered with the other payload.
C30_Witness ==
    /\ "a1" \in hist.reaped
    /\ hist.results["a1"] = {"v1", "v2"}
    /\ HasRow("a1")
    /\ RowOf(store, "a1").auth_result \in {"v1", "v2"}
    /\ RowOf(store, "a1").last_activity = now

(***************************************************************************)
(* What the two UPDATEs leave alone, under CancelSpec.                     *)
(***************************************************************************)
\* Rows x and y agree in every column outside cols.
SameBut(x, y, cols) == \A c \in DOMAIN x \ cols : x[c] = y[c]

\* C31: a register_auth_result(a, v) that succeeds changes only auth_result
\* and last_activity of the one row with attr_id = a, and find_by_room_id(r)
\* changes only last_activity of the rows with room_id = r; every other
\* column and every other row stays as it was, and neither statement inserts
\* or deletes a row.
C31_Frame ==
    [][\A p \in Procs :
          /\ Executes(p, "register") /\ ret'[p] = Ok =>
                 /\ Keys(store') = Keys(store)
                 /\ Cardinality(store') = Cardinality(store)
                 /\ \A a \in Keys(store) :
                        IF a = call[p].attr_id
                        THEN SameBut(RowOf(store, a), RowOf(store', a),
                                     {"auth_result", "last_activity"})
                        ELSE RowOf(store', a) = RowOf(store, a)
          /\ Executes(p, "find") =>
                 /\ Keys(store') = Keys(store)
                 /\ Cardinality(store') = Cardinality(store)
                 /\ \A a \in Keys(store) :
                        IF RowOf(store, a).room_id = call[p].room_id
                        THEN SameBut(RowOf(store, a), RowOf(store', a), {"last_activity"})
                        ELSE RowOf(store', a) = RowOf(store, a)]_vars

\* A result was registered for a2 in room r1 while the session of a1 in room
\* r2 was stored: the row of a2 carries the result and the time of the
\* registration, the row of a1 its older last_activity.
C31_Witness ==
    \E p \in Procs :
        /\ Done(p, "register") /\ ret[p] = Ok
        /\ call[p].attr_id = "a2"
        /\ HasRow("a2") /\ HasRow("a1")
        /\ RowOf(store, "a2").auth_result = call[p].auth_result
        /\ RowOf(store, "a2").last_activity = now
        /\ RowOf(store, "a1").room_id = "r2"
        /\ RowOf(store, "a1").last_activity < now

(***************************************************************************)
(* The host's request that fails after its room read, under RoomSpec.      *)
(***************************************************************************)
\* The host's request has read its room and then failed to collect.
FailedAfterRead == host.pc = "done" /\ host.kind # "Ok" /\ host.sessions # <<>>
\* The steps of the host's request.
Reads == host.pc = "verified" /\ host'.pc # "verified"
Collects == host.pc = "found" /\ host'.pc = "done"

\* C32: when get_credentials_for_host fails after the room read, because a
\* session's auth_result does not decrypt or verify, the refresh of
\* last_activity of the room's sessions is already in the store and stays:
\* the read sets last_activity of every row of the room, the failing
\* collection changes no row, no step sets a last_activity back, and the
\* host gets the error and no credentials.
C32_NoRollback ==
    /\ [][Reads => \A x \in store' :
                       x.room_id = host'.room_id => x.last_activity = now]_vars
    /\ [][Collects => store' = store]_vars
    /\ [][\A a \in Keys(store) \cap Keys(store') :
              RowOf(store', a).last_activity >= RowOf(store, a).last_activity]_vars
    /\ [](FailedAfterRead =>
              /\ host.kind = "Jwe"
              /\ host.credentials = <<>>
              /\ \E i \in 1..Len(host.sessions) :
                     host.sessions[i].auth_result # NULL
                         /\ ~Verifies(host.sessions[i].auth_result)
              /\ \A x \in store :
                     (\E y \in host.before : y.attr_id = x.attr_id)
                         => x.last_activity >= host.read_at)

\* The host's request has failed on a result that does not decrypt, and a
\* session of its room, which was older when the request read it, keeps the
\* time of the read.
C32_Witness ==
    /\ FailedAfterRead
    /\ host.kind = "Jwe"
    /\ \E y \in host.before :
           /\ y.last_activity < host.read_at
           /\ HasRow(y.attr_id)
           /\ RowOf(store, y.attr_id).last_activity = host.read_at
           /\ RowOf(store, y.attr_id).room_id = host.room_id

(***************************************************************************)
(* No auth provider configured, under AuthSpec.                            *)
(***************************************************************************)
\* C33: with no auth provider configured check_token returns
\* Error::Forbidden and requests no endpoint of a provider, so a callback in
\* that configuration never sets the token cookie.
C33_NoProvider ==
    auth.provider = "None" =>
        /\ auth.jar.token = NoCookie
        /\ auth.verified = {}
        /\ ~auth.upstream
        /\ Answered("redirect") =>
               /\ auth.checked.kind = "Forbidden"
               /\ auth.checked.text = "No auth provider configured"
               /\ ~auth.checked.asked
               /\ auth.response = [kind |-> "Forbidden", text |-> auth.checked.text]

\* A callback with the token t1 has been refused with no provider configured.
C33_Witness ==
    /\ auth.provider = "None"
    /\ Answered("redirect")
    /\ auth.request.bearer = "t1"
    /\ auth.response.kind = "Forbidden"
    /\ auth.jar.token = NoCookie

(***************************************************************************)
(* Platform tokens (src/types.rs): from_platform_jwt is applied to tokens  *)
(* of every signer and payload, for both token types and each verifier.    *)
(***************************************************************************)
\* Tokens as they arrive: signed with one of the secrets, with another key
\* or not at all.
PlatformJwts ==
    [signed_with : {Config.host_validator, Config.guest_validator, Config.validator,
                    ForeignKey, ""},
     payload : RoomIds \cup GuestClaims \cup {NoClaim, BadClaim}]

\* HostToken::from_platform_jwt or GuestToken::from_platform_jwt is called.
FromJwt ==
    /\ \E target \in {"HostToken", "GuestToken"}, jwt \in PlatformJwts,
          verifier \in {Config.host_validator, Config.guest_validator, Config.validator} :
           tok' = [target |-> target, jwt |-> jwt, verifier |-> verifier,
                   result |-> FromPlatformJwtFor(target, jwt, verifier)]
    /\ UNCHANGED <<session, auth, sig, resp>>

TokenSpec == Init /\ [][FromJwt]_vars

Returned == tok.result.kind # "none"
SignatureValid == tok.jwt.signed_with = tok.verifier
HasPayload == tok.jwt.payload # NoClaim
\* The claim has the shape of the type that is asked for.
Deserializes ==
    \/ tok.jwt.payload \in GuestClaims
    \/ tok.jwt.payload \in RoomIds /\ tok.target = "HostToken"

\* C34: from_platform_jwt checks in a fixed order and returns the first
\* failure: the signature with the verifier it is given, then the presence
\* of the payload claim (InvalidStructure when it is missing), then the
\* deserialization of the claim; it returns a GuestToken or HostToken only
\* when the signature verified, and with an error it returns no field of
\* the token.
C34_VerifyFirst ==
    Returned =>
        /\ ~SignatureValid => tok.result.kind = "Jwt"
        /\ SignatureValid /\ ~HasPayload => tok.result.kind = "InvalidStructure"
        /\ SignatureValid /\ HasPayload /\ ~Deserializes => tok.result.kind = "Json"
        /\ SignatureValid /\ HasPayload /\ Deserializes =>
               /\ tok.result.kind = "Ok"
               /\ tok.result.token.type = tok.target
               /\ tok.result.token.room_id = ClaimOf(tok.jwt.payload).room_id
        /\ tok.result.kind = "Ok" => SignatureValid
        /\ tok.result.kind # "Ok" => tok.result.token = NoToken

\* A guest token for room r1 that carries no payload claim and is signed with
\* the guest secret was given to the host's verifier: the answer is the
\* failed signature, not the missing claim.
C34_Witness ==
    /\ Returned
    /\ tok.target = "HostToken"
    /\ tok.verifier = Config.host_validator
    /\ tok.jwt.signed_with = Config.guest_validator
    /\ tok.jwt.payload = NoClaim
    /\ tok.result = TokenErr("Jwt")

====
